---- MODULE Spec2Model ----
(***************************************************************************)
(* A model of the triplestore package: the triple model (rdf.go), the      *)
(* binary codec and the dataset decoder (codec.go), and the store with     *)
(* its snapshots.                                                          *)
(*                                                                         *)
(* A Go string is a sequence of bytes (numbers 0..255); a []byte stream is *)
(* a sequence of bytes as well.  An error value is the sequence of the     *)
(* parts of its message: fmt.Errorf("<field>: %s", err) puts the field in  *)
(* front of the parts of err.                                              *)
(***************************************************************************)
EXTENDS Integers, Sequences, FiniteSets, TLC

\* ------------------------------------------------------------------ bounds
\* The longest argument list handed to Encode.
MaxTriples == 2
\* The most readers handed to NewDatasetDecoder.
NumStreams == 2
\* The most triples one Source is given.
MaxStore == 3
\* The most snapshots taken of one Source.
MaxSnaps == 2
\* The longest lexer input made of the characters of LexChars.
MaxInput == 4
\* The most frames a hand-made binary stream holds.
MaxFrames == 2
\* The most Decode calls made on a decoder after its first.
MaxCalls == 1

\* ------------------------------------------------------------- triple model
\* An error is the sequence of the parts of its message; the nil error has none.
Nil == <<>>

\* The nil *triple.
NilTriple == [nil |-> TRUE]

\* rdf.go: the literal type tags, as the bytes of the Go string constants.
XsdString == <<120, 115, 100, 58, 115, 116, 114, 105, 110, 103>>
XsdBoolean == <<120, 115, 100, 58, 98, 111, 111, 108, 101, 97, 110>>
XsdInteger == <<120, 115, 100, 58, 105, 110, 116, 101, 103, 101, 114>>

\* codec.go: the object kind bytes of the binary format.
resourceTypeEncoding == 0
literalTypeEncoding == 1

\* type literal struct { typ, val string }
literal(typ, val) == [typ |-> typ, val |-> val]

\* type object struct { isLit bool; resourceID string; lit literal }
object(isLit, resourceID, lit) == [isLit |-> isLit, resourceID |-> resourceID, lit |-> lit]

\* type triple struct { sub subject; pred predicate; obj object }
triple(sub, pred, obj) == [sub |-> sub, pred |-> pred, obj |-> obj]

\* The zero value of literal, and the two ways the package builds an object.
ZeroLiteral == literal(<<>>, <<>>)
ResourceObject(id) == object(FALSE, id, ZeroLiteral)
LiteralObject(typ, val) == object(TRUE, <<>>, literal(typ, val))

\* func (o object) Literal() (Literal, bool)
ObjLiteral(o) == [lit |-> o.lit, ok |-> o.isLit]

\* func (o object) ResourceID() (string, bool)
ObjResourceID(o) == [id |-> o.resourceID, ok |-> ~o.isLit]

\* A plausible slip in object.Equal: the two structs compared field by field,
\* the fields of the inactive variant included.
ObjectEqualAllFields(o, other) == o = other

\* func (o object) Equal(other Object) bool
ObjectEqual(o, other) ==
  LET l == ObjLiteral(o)
      ol == ObjLiteral(other)
      rid == ObjResourceID(o)
      orid == ObjResourceID(other)
  IN  IF l.ok # ol.ok THEN FALSE
      ELSE IF l.ok THEN l.lit.typ = ol.lit.typ /\ l.lit.val = ol.lit.val
      ELSE IF rid.ok # orid.ok THEN FALSE
      ELSE IF rid.ok THEN rid.id = orid.id
      ELSE TRUE

\* A plausible slip in triple.Equal: the predicate comparison left out.
TripleEqualNoPredicate(t, other) ==
  IF t = NilTriple THEN other = NilTriple
  ELSE IF other = NilTriple THEN FALSE
  ELSE IF t.sub # other.sub THEN FALSE
  ELSE ObjectEqual(t.obj, other.obj)

\* func (t *triple) Equal(other Triple) bool
TripleEqual(t, other) ==
  IF t = NilTriple THEN other = NilTriple
  ELSE IF other = NilTriple THEN FALSE
  ELSE IF t.sub # other.sub THEN FALSE
  ELSE IF t.pred # other.pred THEN FALSE
  ELSE ObjectEqual(t.obj, other.obj)

\* ------------------------------------------------------------ input domains
\* Strings used as subjects, predicates, resource identifiers and literal
\* values: the empty string, and strings whose bytes coincide with the
\* format's own length and kind bytes.
Subjects == {<<>>, <<97>>}
Predicates == {<<>>, <<1>>}
ResourceIDs == {<<>>, <<0, 1>>}

\* Objects: resources, a literal whose type and value are empty, and a typed
\* literal whose unused resourceID field is set (the struct allows it; only
\* the active variant is observable through Equal and the encoders).
Objects ==
  {ResourceObject(id) : id \in ResourceIDs}
    \cup {LiteralObject(<<>>, <<>>), object(TRUE, <<0, 1>>, literal(XsdInteger, <<49>>))}

Triples == {triple(s, p, o) : s \in Subjects, p \in Predicates, o \in Objects}

RECURSIVE SeqsUpTo(_, _)
SeqsUpTo(S, n) ==
  IF n = 0 THEN {<<>>}
  ELSE LET shorter == SeqsUpTo(S, n - 1)
       IN  shorter \cup {Append(q, x) : q \in {s \in shorter : Len(s) = n - 1}, x \in S}

\* ------------------------------------------------------------- binary codec
\* type wordLength uint32, written by binary.Write(&buff, binary.BigEndian, _):
\* the low 32 bits of n as four bytes, high byte first.
wordLength(n) ==
  <<(n \div 16777216) % 256, (n \div 65536) % 256, (n \div 256) % 256, n % 256>>

\* A plausible slip: the length written low byte first.
writeWordLittleEndian(s) ==
  LET n == Len(s)
  IN  <<n % 256, (n \div 256) % 256, (n \div 65536) % 256, (n \div 16777216) % 256>> \o s

\* binary.Write of the length of s followed by buff.WriteString(s).
writeWord(s) == wordLength(Len(s)) \o s

\* func encodeTriple(t Triple) ([]byte, error): the error is always nil.
encodeTriple(t) ==
  LET l == ObjLiteral(t.obj)
  IN  writeWord(t.sub) \o writeWord(t.pred) \o
        (IF l.ok
           THEN <<literalTypeEncoding>> \o writeWord(l.lit.typ) \o writeWord(l.lit.val)
           ELSE <<resourceTypeEncoding>> \o writeWord(ObjResourceID(t.obj).id))

\* The bytes a successful Encode(ts...) has written: one Write per triple.
RECURSIVE EncodeAll(_)
EncodeAll(ts) ==
  IF ts = <<>> THEN <<>> ELSE encodeTriple(Head(ts)) \o EncodeAll(Tail(ts))

\* The errors of the io package and of readWord.
EOF == <<"EOF">>
ErrUnexpectedEOF == <<"unexpected EOF">>
ErrCannotDecodeWord == <<"triplestore: binary: cannot decode word">>

\* fmt.Errorf("<field>: %s", err)
Errorf(field, err) == <<field>> \o err

\* The bytes of a stream after its first n.
Drop(stream, n) == SubSeq(stream, n + 1, Len(stream))

\* io.ReadFull(r, buf) with len(buf) = n, on a reader holding the bytes of stream:
\* EOF when nothing could be read, ErrUnexpectedEOF when the bytes ran out.
ReadFull(stream, n) ==
  IF Len(stream) >= n
    THEN [data |-> SubSeq(stream, 1, n), err |-> Nil, rest |-> Drop(stream, n)]
  ELSE IF Len(stream) = 0 THEN [data |-> <<>>, err |-> EOF, rest |-> stream]
  ELSE [data |-> stream, err |-> ErrUnexpectedEOF, rest |-> <<>>]

\* binary.Read's conversion of the four bytes read, high byte first.
Uint32Of(rd) ==
  IF rd.err # Nil THEN [v |-> 0, err |-> rd.err, rest |-> rd.rest]
  ELSE [v |-> rd.data[1] * 16777216 + rd.data[2] * 65536 + rd.data[3] * 256 + rd.data[4],
        err |-> Nil, rest |-> rd.rest]

\* binary.Read(dec.r, binary.BigEndian, &len) for a uint32
ReadUint32(stream) == Uint32Of(ReadFull(stream, 4))

\* binary.Read's conversion of the one byte read.
Uint8Of(rd) ==
  IF rd.err # Nil THEN [v |-> 0, err |-> rd.err, rest |-> rd.rest]
  ELSE [v |-> rd.data[1], err |-> Nil, rest |-> rd.rest]

\* binary.Read(dec.r, binary.BigEndian, &objType) for a uint8
ReadUint8(stream) == Uint8Of(ReadFull(stream, 1))

\* readWord, lines 211-216: the body has been read with io.ReadFull.
WordOfBody(body) ==
  IF body.err # Nil
    THEN [word |-> <<>>, err |-> ErrCannotDecodeWord, rest |-> body.rest]
    ELSE [word |-> body.data, err |-> Nil, rest |-> body.rest]

\* readWord, lines 207-212: the length has been read.
WordAfterLength(ln) ==
  IF ln.err # Nil THEN [word |-> <<>>, err |-> ln.err, rest |-> ln.rest]
  ELSE WordOfBody(ReadFull(ln.rest, ln.v))

\* func (dec *binaryDecoder) readWord() ([]byte, error)
readWord(stream) == WordAfterLength(ReadUint32(stream))

\* What one call of decodeTriple yields: done, err, the triple it appends to
\* dec.triples (NilTriple when it appends none), and the bytes left in the reader.
Outcome(done, err, tri, rest) == [done |-> done, err |-> err, tri |-> tri, rest |-> rest]

\* decodeTriple, lines 187-200: the literal value has been read.
decodeLiteralValue(sub, pred, litType, val) ==
  IF val.err # Nil THEN Outcome(FALSE, Errorf("literate", val.err), NilTriple, val.rest)
  ELSE Outcome(FALSE, Nil,
               triple(sub, pred, object(TRUE, <<>>, literal(litType, val.word))),
               val.rest)

\* decodeTriple, lines 178-187: the literal type has been read.
decodeLiteral(sub, pred, litType) ==
  IF litType.err # Nil
    THEN Outcome(FALSE, Errorf("literate type", litType.err), NilTriple, litType.rest)
    ELSE decodeLiteralValue(sub, pred, litType.word, readWord(litType.rest))

\* decodeTriple, lines 171-175 and 196-200: the resource has been read.
decodeResource(sub, pred, resource) ==
  IF resource.err # Nil
    THEN Outcome(FALSE, Errorf("resource", resource.err), NilTriple, resource.rest)
    ELSE Outcome(FALSE, Nil,
                 triple(sub, pred, object(FALSE, resource.word, ZeroLiteral)),
                 resource.rest)

\* A plausible slip: a kind byte that is neither of the two encodings refused.
decodeObjectKnownKinds(sub, pred, objType) ==
  IF objType.err # Nil
    THEN Outcome(FALSE, Errorf("object type", objType.err), NilTriple, objType.rest)
  ELSE IF objType.v = resourceTypeEncoding
    THEN decodeResource(sub, pred, readWord(objType.rest))
  ELSE IF objType.v = literalTypeEncoding
    THEN decodeLiteral(sub, pred, readWord(objType.rest))
    ELSE Outcome(FALSE, Errorf("object type", <<"unknown">>), NilTriple, objType.rest)

\* A plausible slip: a failed kind-byte read reported under the predicate.
decodeObjectKindAsPredicate(sub, pred, objType) ==
  IF objType.err # Nil
    THEN Outcome(FALSE, Errorf("predicate", objType.err), NilTriple, objType.rest)
  ELSE IF objType.v = resourceTypeEncoding
    THEN decodeResource(sub, pred, readWord(objType.rest))
    ELSE decodeLiteral(sub, pred, readWord(objType.rest))

\* decodeTriple, lines 164-194: the kind byte has been read.
decodeObject(sub, pred, objType) ==
  IF objType.err # Nil
    THEN Outcome(FALSE, Errorf("object type", objType.err), NilTriple, objType.rest)
  ELSE IF objType.v = resourceTypeEncoding
    THEN decodeResource(sub, pred, readWord(objType.rest))
    ELSE decodeLiteral(sub, pred, readWord(objType.rest))

\* decodeTriple, lines 159-165: the predicate has been read.
decodePredicate(sub, pred) ==
  IF pred.err # Nil
    THEN Outcome(FALSE, Errorf("predicate", pred.err), NilTriple, pred.rest)
    ELSE decodeObject(sub, pred.word, ReadUint8(pred.rest))

\* A plausible slip: every failure of the subject read taken for the end of
\* the stream.
decodeSubjectAnyErrorIsEnd(sub) ==
  IF sub.err # Nil THEN Outcome(TRUE, Nil, NilTriple, sub.rest)
  ELSE decodePredicate(sub.word, readWord(sub.rest))

\* A plausible slip: the end of the stream at a subject length reported as an
\* error like any other.
decodeSubjectNoCleanEnd(sub) ==
  IF sub.err # Nil THEN Outcome(FALSE, Errorf("subject", sub.err), NilTriple, sub.rest)
  ELSE decodePredicate(sub.word, readWord(sub.rest))

\* decodeTriple, lines 152-159: the subject has been read.
decodeSubject(sub) ==
  IF sub.err = EOF THEN Outcome(TRUE, Nil, NilTriple, sub.rest)
  ELSE IF sub.err # Nil THEN Outcome(FALSE, Errorf("subject", sub.err), NilTriple, sub.rest)
  ELSE decodePredicate(sub.word, readWord(sub.rest))

\* func (dec *binaryDecoder) decodeTriple() (bool, error)
decodeTriple(stream) == decodeSubject(readWord(stream))

\* What Decode returns to its caller.
Result(ts, err) == [tris |-> ts, err |-> err]

\* A variant of Decode's failure return that hands back dec.triples.
DecodeFailurePartial(decoded, err) == Result(decoded, err)

\* Decode, line 144: return nil, err
DecodeFailure(decoded, err) == Result(<<>>, err)

\* Decode, line 148: return dec.triples, nil
DecodeSuccess(decoded) == Result(decoded, Nil)

\* func (dec *binaryDecoder) Decode() ([]Triple, error), run to its return on
\* a decoder whose reader holds the bytes of stream and whose dec.triples is
\* decoded: DecodeLoop calls decodeTriple, DecodeBranch is lines 141-145.
RECURSIVE DecodeLoop(_, _)
DecodeBranch(o, decoded) ==
  IF o.done THEN DecodeSuccess(decoded)
  ELSE IF o.err # Nil THEN DecodeFailure(decoded, o.err)
  ELSE DecodeLoop(o.rest, Append(decoded, o.tri))

DecodeLoop(stream, decoded) == DecodeBranch(decodeTriple(stream), decoded)

\* NewBinaryDecoder(r).Decode()
BinaryDecode(stream) == DecodeLoop(stream, <<>>)

\* ------------------------------------------------------- N-Triples encoder
\* The characters of the text format, as bytes.
ChNewline == 10
ChSpace == 32
ChQuote == 34
ChDot == 46
ChLt == 60
ChGt == 62
ChCaret == 94

\* The literal type tag of date-times, which the encoder's switch names.
XsdDateTime == <<120, 115, 100, 58, 100, 97, 116, 101, 84, 105, 109, 101>>

\* The datatype IRIs of the encoder's switch.
BooleanIRI ==
  <<104, 116, 116, 112, 58, 47, 47, 119, 119, 119, 46, 119, 51, 46, 111, 114, 103, 47,
    50, 48, 48, 49, 47, 88, 77, 76, 83, 99, 104, 101, 109, 97, 35,
    98, 111, 111, 108, 101, 97, 110>>
DateTimeIRI ==
  <<104, 116, 116, 112, 58, 47, 47, 119, 119, 119, 46, 119, 51, 46, 111, 114, 103, 47,
    50, 48, 48, 49, 47, 88, 77, 76, 83, 99, 104, 101, 109, 97, 35,
    100, 97, 116, 101, 84, 105, 109, 101>>
IntegerIRI ==
  <<104, 116, 116, 112, 58, 47, 47, 119, 119, 119, 46, 119, 51, 46, 111, 114, 103, 47,
    50, 48, 48, 49, 47, 88, 77, 76, 83, 99, 104, 101, 109, 97, 35,
    105, 110, 116, 101, 103, 101, 114>>

\* fmt.Sprintf("<%s>", s)
Angle(s) == <<ChLt>> \o s \o <<ChGt>>

\* The string constants "^^<...>" of the switch.
DatatypeSuffix(iri) == <<ChCaret, ChCaret>> \o Angle(iri)

\* A plausible slip: string literals given a datatype suffix as well.
litTypeOfEveryKnownTag(typ) ==
  IF typ = XsdBoolean THEN DatatypeSuffix(BooleanIRI)
  ELSE IF typ = XsdDateTime THEN DatatypeSuffix(DateTimeIRI)
  ELSE IF typ = XsdInteger THEN DatatypeSuffix(IntegerIRI)
  ELSE IF typ = XsdString THEN DatatypeSuffix(XsdString)
  ELSE <<>>

\* ntriplesEncoder.Encode, lines 236-244: litType after the switch on
\* lit.Type(); it stays the empty string when no case matches.
litTypeOf(typ) ==
  IF typ = XsdBoolean THEN DatatypeSuffix(BooleanIRI)
  ELSE IF typ = XsdDateTime THEN DatatypeSuffix(DateTimeIRI)
  ELSE IF typ = XsdInteger THEN DatatypeSuffix(IntegerIRI)
  ELSE <<>>

\* fmt.Sprintf("\"%s\"%s", lit.Value(), litType)
QuotedWithType(val, litType) == <<ChQuote>> \o val \o <<ChQuote>> \o litType

\* Lines 232-234: what is written when ResourceID() reports a resource.
ntResourcePart(rid) == IF rid.ok THEN Angle(rid.id) ELSE <<>>

\* Lines 235-246: what is written when Literal() reports a literal.
ntLiteralPart(l) ==
  IF l.ok THEN QuotedWithType(l.lit.val, litTypeOf(l.lit.typ)) ELSE <<>>

\* ntriplesEncoder.Encode, lines 229-247: the bytes of buff for one triple.
ntEncodeTriple(t) ==
  Angle(t.sub) \o <<ChSpace>> \o Angle(t.pred) \o <<ChSpace>>
    \o ntResourcePart(ObjResourceID(t.obj)) \o ntLiteralPart(ObjLiteral(t.obj))
    \o <<ChSpace, ChDot, ChNewline>>

\* The text a successful ntriplesEncoder.Encode(ts...) has written.
RECURSIVE NTEncodeAll(_)
NTEncodeAll(ts) ==
  IF ts = <<>> THEN <<>> ELSE ntEncodeTriple(Head(ts)) \o NTEncodeAll(Tail(ts))

\* --------------------------------------------- N-Triples lexer and parser
\* The lexer and the parser, from the format's description and the tables
\* of TestLexer, TestLexerReadIRI, TestLexerReadStringLiteral and TestParser.
ChHash == 35
ChBackslash == 92

\* The lexer's end-of-input character.
ChEnd == 0

Whitespace == {9, 13, ChNewline, ChSpace}

\* The character at index i of txt, ChEnd past its end.
CharAt(txt, i) == IF i <= Len(txt) THEN txt[i] ELSE ChEnd

\* The first index from i on that holds no whitespace.
RECURSIVE SkipWhitespace(_, _)
SkipWhitespace(txt, i) ==
  IF i <= Len(txt) /\ txt[i] \in Whitespace THEN SkipWhitespace(txt, i + 1) ELSE i

\* The look-ahead of a bounded read: the next character that is not
\* whitespace ("sub > ject>" reads as "sub > ject", "subject>   <" as "subject").
PeekNonSpace(txt, i) == CharAt(txt, SkipWhitespace(txt, i))

\* The characters that make a '>' the end of an IRI, and a '"' the end of a
\* string literal ("li\"t\"^" reads as "li\"t").
IRIFollow == {ChEnd, ChDot, ChLt, ChQuote}
LiteralFollow == {ChEnd, ChDot, ChLt, ChQuote, ChCaret}

\* What a bounded read yields: the content, the index after the terminator,
\* and whether a terminator was found.
ReadOutcome(content, next, ok) == [content |-> content, next |-> next, ok |-> ok]

\* A plausible slip: the look-ahead taking whitespace itself for a delimiter.
RECURSIVE BoundedReadPeekOne(_, _, _, _, _)
BoundedReadPeekOne(txt, start, i, term, follow) ==
  IF i > Len(txt) THEN ReadOutcome(<<>>, Len(txt) + 1, FALSE)
  ELSE IF txt[i] = ChBackslash THEN BoundedReadPeekOne(txt, start, i + 2, term, follow)
  ELSE IF txt[i] = term /\ CharAt(txt, i + 1) \in follow \cup Whitespace
    THEN ReadOutcome(SubSeq(txt, start, i - 1), i + 1, TRUE)
  ELSE BoundedReadPeekOne(txt, start, i + 1, term, follow)

\* The bounded read from index start, the scan being at index i: a backslash
\* and the character after it are content; a terminator ends the read when
\* the look-ahead is in follow; the end of the input ends it with nothing.
RECURSIVE BoundedRead(_, _, _, _, _)
BoundedRead(txt, start, i, term, follow) ==
  IF i > Len(txt) THEN ReadOutcome(<<>>, Len(txt) + 1, FALSE)
  ELSE IF txt[i] = ChBackslash THEN BoundedRead(txt, start, i + 2, term, follow)
  ELSE IF txt[i] = term /\ PeekNonSpace(txt, i + 1) \in follow
    THEN ReadOutcome(SubSeq(txt, start, i - 1), i + 1, TRUE)
  ELSE BoundedRead(txt, start, i + 1, term, follow)

\* func (l *lexer) readIRI() string, on a lexer at index i
readIRIAt(txt, i) == BoundedRead(txt, i, i, ChGt, IRIFollow)

\* func (l *lexer) readStringLiteral() string, on a lexer at index i
readStringLiteralAt(txt, i) == BoundedRead(txt, i, i, ChQuote, LiteralFollow)

\* newLexer(txt).readIRI() and newLexer(txt).readStringLiteral()
readIRI(txt) == readIRIAt(txt, 1).content
readStringLiteral(txt) == readStringLiteralAt(txt, 1).content

\* type ntToken: its kind, its content and the index the lexer is at after it.
Token(kind, lit, next) == [kind |-> kind, lit |-> lit, next |-> next]

\* The token of a bounded read: a read that found no terminator is no token
\* of its kind.
ReadToken(kind, rd) ==
  IF rd.ok THEN Token(kind, rd.content, rd.next) ELSE Token("ILLEGAL", <<>>, rd.next)

\* The index of the end of the line that index i is on.
RECURSIVE EndOfLine(_, _)
EndOfLine(txt, i) ==
  IF i > Len(txt) \/ txt[i] = ChNewline THEN i ELSE EndOfLine(txt, i + 1)

\* func (l *lexer) nextToken() ntToken, on a lexer at index i
nextToken(txt, i) ==
  IF i > Len(txt) THEN Token("EOF", <<>>, i)
  ELSE IF txt[i] = ChLt THEN ReadToken("IRI", readIRIAt(txt, i + 1))
  ELSE IF txt[i] = ChQuote THEN ReadToken("LITERAL", readStringLiteralAt(txt, i + 1))
  ELSE IF txt[i] = ChCaret /\ CharAt(txt, i + 1) = ChCaret /\ CharAt(txt, i + 2) = ChLt
    THEN ReadToken("DATATYPE", readIRIAt(txt, i + 3))
  ELSE IF txt[i] = ChDot THEN Token("FULLSTOP", <<>>, i + 1)
  ELSE IF txt[i] \in Whitespace THEN Token("WHITESPACE", <<>>, SkipWhitespace(txt, i))
  ELSE IF txt[i] = ChHash
    THEN Token("COMMENT", SubSeq(txt, i + 1, EndOfLine(txt, i) - 1), EndOfLine(txt, i))
  ELSE Token("ILLEGAL", <<>>, i + 1)

\* The parser's next token: whitespace and comments are passed over.
RECURSIVE SignificantFrom(_, _)
Significant(txt, tok) ==
  IF tok.kind \in {"WHITESPACE", "COMMENT"} THEN SignificantFrom(txt, tok.next) ELSE tok

SignificantFrom(txt, i) == Significant(txt, nextToken(txt, i))

\* The parser's error: the token class that was expected and not found.
ParseError(expected) == <<"triplestore: ntriples: expected", expected>>

\* func (p *ntParser) parse() []Triple, statement by statement:
\* IRI IRI (IRI | Literal [Datatype]) '.'; a literal without a datatype has
\* the string type, one with a datatype has the datatype's IRI as its type.
RECURSIVE ParseFrom(_, _, _)
ParseFullStop(txt, acc, t, tok) ==
  IF tok.kind = "FULLSTOP" THEN ParseFrom(txt, tok.next, Append(acc, t))
  ELSE Result(acc, ParseError("full stop"))

ParseDatatype(txt, acc, sub, pred, val, tok) ==
  IF tok.kind = "DATATYPE"
    THEN ParseFullStop(txt, acc, triple(sub, pred, LiteralObject(tok.lit, val)),
                       SignificantFrom(txt, tok.next))
    ELSE ParseFullStop(txt, acc, triple(sub, pred, LiteralObject(XsdString, val)), tok)

ParseObject(txt, acc, sub, pred, tok) ==
  IF tok.kind = "IRI"
    THEN ParseFullStop(txt, acc, triple(sub, pred, ResourceObject(tok.lit)),
                       SignificantFrom(txt, tok.next))
  ELSE IF tok.kind = "LITERAL"
    THEN ParseDatatype(txt, acc, sub, pred, tok.lit, SignificantFrom(txt, tok.next))
  ELSE Result(acc, ParseError("object"))

ParsePredicate(txt, acc, sub, tok) ==
  IF tok.kind = "IRI" THEN ParseObject(txt, acc, sub, tok.lit, SignificantFrom(txt, tok.next))
  ELSE Result(acc, ParseError("predicate"))

ParseSubject(txt, acc, tok) ==
  IF tok.kind = "EOF" THEN Result(acc, Nil)
  ELSE IF tok.kind = "IRI" THEN ParsePredicate(txt, acc, tok.lit, SignificantFrom(txt, tok.next))
  ELSE Result(acc, ParseError("subject"))

ParseFrom(txt, i, acc) == ParseSubject(txt, acc, SignificantFrom(txt, i))

\* newNTParser(txt).parse()
parse(txt) == ParseFrom(txt, 1, <<>>)

\* TestLexerReadIRI: the inputs and the node each is read as.
ReadIRICases ==
  {
    <<<<60>>,
      <<>>>>,
    <<<<62>>,
      <<>>>>,
    <<<<>>,
      <<>>>>,
    <<<<122>>,
      <<>>>>,
    <<<<115, 117, 98, 106, 101, 99, 116, 62>>,
      <<115, 117, 98, 106, 101, 99, 116>>>>,
    <<<<115, 32, 32, 117, 98, 106, 101, 99, 116, 62>>,
      <<115, 32, 32, 117, 98, 106, 101, 99, 116>>>>,
    <<<<115, 117, 98, 106, 101, 99, 116, 62, 32, 32, 32, 60>>,
      <<115, 117, 98, 106, 101, 99, 116>>>>,
    <<<<32, 32, 32, 32, 115, 117, 98, 106, 101, 99, 116, 62, 32, 32, 32, 60>>,
      <<32, 32, 32, 32, 115, 117, 98, 106, 101, 99, 116>>>>,
    <<<<115, 117, 98, 106, 101, 99, 116, 62, 60>>,
      <<115, 117, 98, 106, 101, 99, 116>>>>,
    <<<<115, 117, 98, 106, 101, 32, 32, 32, 99, 116, 62, 60>>,
      <<115, 117, 98, 106, 101, 32, 32, 32, 99, 116>>>>,
    <<<<115, 117, 98, 62, 106, 101, 99, 116, 62>>,
      <<115, 117, 98, 62, 106, 101, 99, 116>>>>,
    <<<<115, 117, 98, 32, 62, 32, 106, 101, 99, 116, 62>>,
      <<115, 117, 98, 32, 62, 32, 106, 101, 99, 116>>>>,
    <<<<115, 117, 98, 62, 106, 101, 99, 116, 62, 32, 32, 32, 32, 32, 32>>,
      <<115, 117, 98, 62, 106, 101, 99, 116>>>>,
    <<<<115, 117, 98, 106, 101, 99, 116>>,
      <<>>>>,
    <<<<112, 114, 101, 100, 62, 32, 32, 32, 34>>,
      <<112, 114, 101, 100>>>>,
    <<<<112, 114, 101, 100, 62, 34>>,
      <<112, 114, 101, 100>>>>,
    <<<<114, 101, 115, 111, 117, 114, 99, 101, 62, 46>>,
      <<114, 101, 115, 111, 117, 114, 99, 101>>>>,
    <<<<114, 101, 115, 111, 117, 114, 99, 101, 62, 32, 46>>,
      <<114, 101, 115, 111, 117, 114, 99, 101>>>>,
    <<<<114, 101, 115, 111, 117, 114, 99, 101, 62, 62, 32, 46>>,
      <<114, 101, 115, 111, 117, 114, 99, 101, 62>>>>,
    <<<<114, 101, 115, 111, 117, 114, 99, 101, 62, 32, 32, 46, 32, 32, 32>>,
      <<114, 101, 115, 111, 117, 114, 99, 101>>>> }

\* TestLexerReadStringLiteral: the inputs and the node each is read as.
ReadStringLiteralCases ==
  {
    <<<<>>,
      <<>>>>,
    <<<<34>>,
      <<>>>>,
    <<<<122>>,
      <<>>>>,
    <<<<108, 105, 116, 34>>,
      <<108, 105, 116>>>>,
    <<<<108, 32, 105, 116, 34>>,
      <<108, 32, 105, 116>>>>,
    <<<<108, 105, 34, 116, 34>>,
      <<108, 105, 34, 116>>>>,
    <<<<108, 105, 32, 34, 116, 34>>,
      <<108, 105, 32, 34, 116>>>>,
    <<<<108, 105, 34, 116, 34, 32, 46>>,
      <<108, 105, 34, 116>>>>,
    <<<<108, 105, 34, 116, 34, 46>>,
      <<108, 105, 34, 116>>>>,
    <<<<108, 105, 34, 116, 34, 32, 32, 46, 32, 32>>,
      <<108, 105, 34, 116>>>>,
    <<<<108, 105, 34, 116, 34, 94>>,
      <<108, 105, 34, 116>>>>,
    <<<<108, 105, 34, 116, 34, 94, 94>>,
      <<108, 105, 34, 116>>>>,
    <<<<108, 105, 34, 116, 34, 32, 94>>,
      <<108, 105, 34, 116>>>>,
    <<<<108, 105, 34, 116, 34, 32, 94, 94>>,
      <<108, 105, 34, 116>>>>,
    <<<<108, 105, 34, 116, 34, 32, 32, 32, 94>>,
      <<108, 105, 34, 116>>>>,
    <<<<108, 105, 34, 116, 34, 32, 32, 32, 32, 32, 94, 94>>,
      <<108, 105, 34, 116>>>> }

\* -------------------------------------------------------------------- state
VARIABLES
  \* One binary encoder writing to a buffer, and one binary decoder reading a
  \* prefix of what was written.
  tris,        \* the arguments of Encode
  encPos,      \* the index of the triple Encode's loop is at
  w,           \* the bytes written to enc.w
  cut,         \* how many of the written bytes the decoder's stream holds
  r,           \* dec.r: the bytes not yet read
  decTriples,  \* dec.triples
  decRet,      \* what Decode returned
  pc,          \* where the encoder and the decoder are
  \* One datasetDecoder.Decode call.
  newDecoderFunc, \* dec.newDecoderFunc: which decoder runs on each stream
  origin,      \* per stream: the triples encoded and the length kept of them
  rs,          \* dec.rs: the bytes of each reader
  wpc,         \* per worker goroutine: where it is
  wres,        \* per worker: the result its decoder returned
  wg,          \* the WaitGroup counter
  results,     \* the results channel: the values sent and not yet received
  closes,      \* how many times close(results) ran
  closerPc,    \* the goroutine that waits and closes
  mainPc,      \* the goroutine that called Decode
  all,         \* Decode's local all
  errs,        \* Decode's local errs
  dsRet,       \* what datasetDecoder.Decode returned
  hangs,       \* the workers whose decoder's Decode never returns
  sendOrder,   \* the workers in the order their results were sent
  \* One Source and the snapshots taken of it.
  store,       \* the triples added to the Source, in order
  snaps,       \* the snapshots taken
  seen,        \* per snapshot: the Source's triples at the time it was taken
  index,       \* the Source's index by (predicate, object)
  found,       \* the last WithPredObj query and what it returned
  \* Two triples compared with Equal.
  t1, t2,
  eq,          \* the results of t1.Equal(t1), t1.Equal(t2), t2.Equal(t1)
  oeq,         \* the results of Equal on the objects of t1 and t2, both ways
  \* The sink an encoder writes to, and what Encode returned.
  writes,      \* how many times Write was called on the sink
  encRet,      \* what Encode returned
  \* An N-Triples parser run over the text an encoder wrote.
  parsed,      \* what parse returned
  \* A lexer and one bounded read on it.
  input,       \* the lexer's input
  lexRet,      \* what readIRI and readStringLiteral returned
  \* A binary decoder on a stream of frames, called more than once.
  frames,      \* the frames the stream is made of
  calls,       \* how many Decode calls followed the first on the decoder
  failed       \* whether an earlier Decode call on it returned an error

codecVars == <<tris, encPos, w, cut, r, decTriples, decRet, pc>>
datasetVars ==
  <<newDecoderFunc, origin, rs, wpc, wres, wg, results, closes, closerPc, mainPc, all, errs, dsRet,
    hangs, sendOrder>>
storeVars == <<store, snaps, seen, index, found>>
equalVars == <<t1, t2, eq, oeq>>
sinkVars == <<writes, encRet>>
textVars == <<parsed>>
lexVars == <<input, lexRet>>
rawVars == <<frames, calls, failed>>
vars == <<codecVars, datasetVars, storeVars, equalVars, sinkVars, textVars, lexVars, rawVars>>

\* Encode has not returned.
NoReturn == <<"no return yet">>

NoResult == [tris |-> <<>>, err |-> <<"no result yet">>]

\* The parts of the state a specification does not use stay as they are here.
CodecIdle ==
  /\ tris = <<>> /\ encPos = 1 /\ w = <<>> /\ cut = 0 /\ r = <<>>
  /\ decTriples = <<>> /\ decRet = NoResult /\ pc = "idle"

DatasetIdle ==
  /\ newDecoderFunc = "binary"
  /\ origin = <<>> /\ rs = <<>> /\ wpc = <<>> /\ wres = <<>> /\ wg = 0
  /\ results = <<>> /\ closes = 0 /\ closerPc = "idle" /\ mainPc = "idle"
  /\ all = <<>> /\ errs = <<>> /\ dsRet = NoResult
  /\ hangs = {} /\ sendOrder = <<>>

\* No query has been made.
NoQuery == [snap |-> 0, pred |-> <<>>, obj |-> ZeroLiteral, res |-> <<>>]

StoreIdle == store = <<>> /\ snaps = <<>> /\ seen = <<>> /\ index = <<>> /\ found = NoQuery

EqualIdle == t1 = NilTriple /\ t2 = NilTriple /\ eq = <<>> /\ oeq = <<>>

SinkIdle == writes = 0 /\ encRet = NoReturn

TextIdle == parsed = NoResult

LexIdle == input = <<>> /\ lexRet = <<>>

RawIdle == frames = <<>> /\ calls = 0 /\ failed = FALSE

\* Everything but the codec, the dataset decoder, the store and Equal.
RestIdle == SinkIdle /\ TextIdle /\ LexIdle /\ RawIdle

\* ------------------------------------------- binary encoder, binary decoder
\* The error a sink returns from a Write it rejects.
SinkError == <<"sink: write rejected">>

\* How many of the bytes b a rejected Write may have taken: none, some, all
\* but one.
PartialWrites(b) == {0, Len(b) \div 2, Len(b) - 1}

\* NewBinaryEncoder(w) on an empty buffer, about to run Encode(tris...).
CodecInit ==
  /\ tris \in SeqsUpTo(Triples, MaxTriples)
  /\ encPos = 1 /\ w = <<>> /\ cut = 0 /\ r = <<>>
  /\ decTriples = <<>> /\ decRet = NoResult /\ pc = "encode"

\* binaryEncoder.Encode, one turn of its loop: encodeTriple, then enc.w.Write.
EncodeWrite ==
  /\ pc = "encode" /\ encPos <= Len(tris)
  /\ w' = w \o encodeTriple(tris[encPos])
  /\ encPos' = encPos + 1
  /\ writes' = writes + 1
  /\ UNCHANGED <<tris, cut, r, decTriples, decRet, pc, encRet>>
  /\ UNCHANGED <<datasetVars, storeVars, equalVars, textVars, lexVars, rawVars>>

\* A plausible slip: the error of Write dropped, the loop going on to the
\* next triple.
EncodeWriteFailsIgnored ==
  /\ pc = "encode" /\ encPos <= Len(tris)
  /\ \E n \in PartialWrites(encodeTriple(tris[encPos])) :
       w' = w \o SubSeq(encodeTriple(tris[encPos]), 1, n)
  /\ encPos' = encPos + 1
  /\ writes' = writes + 1
  /\ UNCHANGED <<tris, cut, r, decTriples, decRet, pc, encRet>>
  /\ UNCHANGED <<datasetVars, storeVars, equalVars, textVars, lexVars, rawVars>>

\* binaryEncoder.Encode, one turn of its loop on a sink that rejects the
\* Write: lines 90-92, return err.
EncodeWriteFails ==
  /\ pc = "encode" /\ encPos <= Len(tris)
  /\ \E n \in PartialWrites(encodeTriple(tris[encPos])) :
       w' = w \o SubSeq(encodeTriple(tris[encPos]), 1, n)
  /\ writes' = writes + 1
  /\ encRet' = SinkError
  /\ pc' = "write failed"
  /\ UNCHANGED <<tris, encPos, cut, r, decTriples, decRet>>
  /\ UNCHANGED <<datasetVars, storeVars, equalVars, textVars, lexVars, rawVars>>

\* binaryEncoder.Encode, after the loop: return nil.
EncodeReturn ==
  /\ pc = "encode" /\ encPos > Len(tris)
  /\ pc' = "encoded"
  /\ encRet' = Nil
  /\ UNCHANGED <<tris, encPos, w, cut, r, decTriples, decRet, writes>>
  /\ UNCHANGED <<datasetVars, storeVars, equalVars, textVars, lexVars, rawVars>>

\* NewBinaryDecoder(r) over a stream holding the first k bytes written: the
\* whole output when k = Len(w), a truncated stream otherwise.
NewBinaryDecoder ==
  /\ pc = "encoded"
  /\ \E k \in 0..Len(w) :
       /\ cut' = k
       /\ r' = SubSeq(w, 1, k)
  /\ decTriples' = <<>>
  /\ pc' = "decode"
  /\ UNCHANGED <<tris, encPos, w, decRet>>
  /\ UNCHANGED <<datasetVars, storeVars, equalVars, sinkVars, textVars, lexVars, rawVars>>

\* binaryDecoder.Decode, lines 141-145: the branch taken on what decodeTriple
\* returned.
DecodeTurn(o) ==
  /\ r' = o.rest
  /\ IF o.done
       THEN /\ decRet' = DecodeSuccess(decTriples)
            /\ pc' = "done"
            /\ UNCHANGED decTriples
     ELSE IF o.err # Nil
       THEN /\ decRet' = DecodeFailure(decTriples, o.err)
            /\ pc' = "done"
            /\ UNCHANGED decTriples
     ELSE /\ decTriples' = Append(decTriples, o.tri)
          /\ UNCHANGED <<decRet, pc>>

\* binaryDecoder.Decode, one turn of its loop: a decodeTriple call and the
\* branch taken on what it returned.
DecodeStep ==
  /\ pc = "decode"
  /\ DecodeTurn(decodeTriple(r))
  /\ UNCHANGED <<tris, encPos, w, cut>>
  /\ UNCHANGED <<datasetVars, storeVars, equalVars, sinkVars, textVars, lexVars, rawVars>>

Init == CodecInit /\ DatasetIdle /\ StoreIdle /\ EqualIdle /\ RestIdle

Next ==
  \/ EncodeWrite
  \/ EncodeReturn
  \/ NewBinaryDecoder
  \/ DecodeStep

Spec == Init /\ [][Next]_vars

\* ------------------------------------- both encoders, the N-Triples parser
\* The triples handed to either encoder: resources, one of them holding the
\* characters that end an IRI, and literals of every tag of the encoder's
\* switch, of the string tag, of a custom tag and of the empty tag.
TextObjects ==
  {ResourceObject(<<111>>), ResourceObject(<<111, ChGt, ChSpace, ChLt, 120>>),
   object(TRUE, <<111>>, literal(XsdInteger, <<49>>))}
    \cup {LiteralObject(ty, <<49>>) :
            ty \in {XsdBoolean, XsdDateTime, XsdInteger, XsdString, <<109>>, <<>>}}

TextTriples == {triple(<<115>>, <<112>>, o) : o \in TextObjects}

\* NewBinaryEncoder(w) or NewNTriplesEncoder(w) on an empty sink, about to
\* run Encode(tris...).
TextInit ==
  /\ tris \in SeqsUpTo(TextTriples, MaxTriples)
  /\ pc \in {"encode", "ntencode"}
  /\ encPos = 1 /\ w = <<>> /\ cut = 0 /\ r = <<>>
  /\ decTriples = <<>> /\ decRet = NoResult
  /\ writes = 0 /\ encRet = NoReturn /\ parsed = NoResult

\* ntriplesEncoder.Encode, one turn of its loop: the line is built, then
\* enc.w.Write takes it.
NTEncodeWrite ==
  /\ pc = "ntencode" /\ encPos <= Len(tris)
  /\ w' = w \o ntEncodeTriple(tris[encPos])
  /\ encPos' = encPos + 1
  /\ writes' = writes + 1
  /\ UNCHANGED <<tris, cut, r, decTriples, decRet, pc, encRet>>
  /\ UNCHANGED <<datasetVars, storeVars, equalVars, textVars, lexVars, rawVars>>

\* ntriplesEncoder.Encode, one turn of its loop on a sink that rejects the
\* Write: lines 249-251, return err.
NTEncodeWriteFails ==
  /\ pc = "ntencode" /\ encPos <= Len(tris)
  /\ \E n \in PartialWrites(ntEncodeTriple(tris[encPos])) :
       w' = w \o SubSeq(ntEncodeTriple(tris[encPos]), 1, n)
  /\ writes' = writes + 1
  /\ encRet' = SinkError
  /\ pc' = "ntwrite failed"
  /\ UNCHANGED <<tris, encPos, cut, r, decTriples, decRet>>
  /\ UNCHANGED <<datasetVars, storeVars, equalVars, textVars, lexVars, rawVars>>

\* ntriplesEncoder.Encode, after the loop: return nil.
NTEncodeReturn ==
  /\ pc = "ntencode" /\ encPos > Len(tris)
  /\ pc' = "ntencoded"
  /\ encRet' = Nil
  /\ UNCHANGED <<tris, encPos, w, cut, r, decTriples, decRet, writes>>
  /\ UNCHANGED <<datasetVars, storeVars, equalVars, textVars, lexVars, rawVars>>

\* newNTParser(text).parse() on the text the encoder wrote.
NTParse ==
  /\ pc = "ntencoded"
  /\ parsed' = parse(w)
  /\ pc' = "parsed"
  /\ UNCHANGED <<tris, encPos, w, cut, r, decTriples, decRet>>
  /\ UNCHANGED <<datasetVars, storeVars, equalVars, sinkVars, lexVars, rawVars>>

InitText == TextInit /\ DatasetIdle /\ StoreIdle /\ EqualIdle /\ LexIdle /\ RawIdle

NextText ==
  \/ EncodeWrite
  \/ EncodeWriteFails
  \/ EncodeReturn
  \/ NTEncodeWrite
  \/ NTEncodeWriteFails
  \/ NTEncodeReturn
  \/ NTParse

SpecText == InitText /\ [][NextText]_vars

\* ------------------------------------------------- the lexer's bounded reads
\* The characters of the inputs: a letter, both terminators, the characters
\* the look-ahead tells apart, the backslash and the caret.
LexChars == {97, ChGt, ChQuote, ChSpace, ChDot, ChLt, ChBackslash, ChCaret}

\* The inputs: every string over LexChars up to MaxInput characters, and the
\* inputs of the two test tables.
LexInputs ==
  SeqsUpTo(LexChars, MaxInput)
    \cup {c[1] : c \in ReadIRICases} \cup {c[1] : c \in ReadStringLiteralCases}

\* newLexer(input)
LexInit == input \in LexInputs /\ lexRet = <<>>

\* newLexer(input).readIRI()
ReadIRI ==
  /\ lexRet = <<>>
  /\ lexRet' = <<"readIRI", readIRI(input)>>
  /\ UNCHANGED input
  /\ UNCHANGED <<codecVars, datasetVars, storeVars, equalVars, sinkVars, textVars, rawVars>>

\* newLexer(input).readStringLiteral()
ReadStringLiteral ==
  /\ lexRet = <<>>
  /\ lexRet' = <<"readStringLiteral", readStringLiteral(input)>>
  /\ UNCHANGED input
  /\ UNCHANGED <<codecVars, datasetVars, storeVars, equalVars, sinkVars, textVars, rawVars>>

InitLexer ==
  LexInit /\ CodecIdle /\ DatasetIdle /\ StoreIdle /\ EqualIdle /\ SinkIdle /\ TextIdle /\ RawIdle

NextLexer ==
  \/ ReadIRI
  \/ ReadStringLiteral

SpecLexer == InitLexer /\ [][NextLexer]_vars

\* ------------------------- binary decoder on any stream, Decode called again
\* The values of the kind byte the streams carry: the two the encoder writes
\* and two it never writes.
ObjectKinds == {resourceTypeEncoding, literalTypeEncoding, 2, 255}

\* One triple's worth of stream: subject, predicate, kind byte and the words
\* after it.
Frame(sub, pred, kind, words) == [sub |-> sub, pred |-> pred, kind |-> kind, words |-> words]

\* Frames with one word after kind 0 and two words after any other kind.
RawFrames ==
  {Frame(<<115>>, <<112>>, resourceTypeEncoding, <<<<120>>>>)}
    \cup {Frame(<<115>>, <<112>>, k, <<<<116>>, v>>) :
            k \in ObjectKinds \ {resourceTypeEncoding}, v \in {<<>>, <<118>>}}

\* The bytes of a frame, laid out as encodeTriple lays a triple out.
FrameBytes(f) ==
  writeWord(f.sub) \o writeWord(f.pred) \o <<f.kind>>
    \o (IF Len(f.words) = 1 THEN writeWord(f.words[1])
        ELSE writeWord(f.words[1]) \o writeWord(f.words[2]))

RECURSIVE RawStream(_)
RawStream(fs) == IF fs = <<>> THEN <<>> ELSE FrameBytes(Head(fs)) \o RawStream(Tail(fs))

\* A stream of frames stands ready; NewBinaryDecoder wraps any prefix of it.
RawInit ==
  /\ frames \in SeqsUpTo(RawFrames, MaxFrames)
  /\ w = RawStream(frames)
  /\ tris = <<>> /\ encPos = 1 /\ cut = 0 /\ r = <<>>
  /\ decTriples = <<>> /\ decRet = NoResult /\ pc = "encoded"
  /\ calls = 0 /\ failed = FALSE

\* The caller calls Decode again on the decoder whose Decode has returned:
\* dec.r and dec.triples are as the last call left them.
DecodeAgain ==
  /\ pc = "done"
  /\ calls < MaxCalls
  /\ calls' = calls + 1
  /\ failed' = (failed \/ decRet.err # Nil)
  /\ pc' = "decode"
  /\ UNCHANGED <<tris, encPos, w, cut, r, decTriples, decRet, frames>>
  /\ UNCHANGED <<datasetVars, storeVars, equalVars, sinkVars, textVars, lexVars>>

InitDecoder ==
  RawInit /\ DatasetIdle /\ StoreIdle /\ EqualIdle /\ SinkIdle /\ TextIdle /\ LexIdle

NextDecoder ==
  \/ NewBinaryDecoder
  \/ DecodeStep
  \/ DecodeAgain

SpecDecoder == InitDecoder /\ [][NextDecoder]_vars

\* ---------------------------------------------------------- dataset decoder
\* The streams handed to the dataset decoder: prefixes of binary encodings.
\* A source names the triples encoded and how many bytes of them are kept.
DsA == triple(<<97>>, <<1>>, ResourceObject(<<0, 1>>))
DsB == triple(<<>>, <<>>, LiteralObject(<<>>, <<49>>))

StreamSources ==
  { [ts |-> <<>>, cut |-> 0],
    [ts |-> <<DsA>>, cut |-> Len(EncodeAll(<<DsA>>))],
    [ts |-> <<DsB, DsA>>, cut |-> Len(EncodeAll(<<DsB, DsA>>))],
    [ts |-> <<DsA, DsB>>, cut |-> Len(EncodeAll(<<DsA>>)) + 2],
    [ts |-> <<DsB>>, cut |-> 9] }

StreamBytes(src) == SubSeq(EncodeAll(src.ts), 1, src.cut)

\* A Decoder the caller may supply besides the binary one: it reads the same
\* format and returns the triples decoded so far together with its error.
RECURSIVE LenientLoop(_, _)
LenientBranch(o, decoded) ==
  IF o.done THEN Result(decoded, Nil)
  ELSE IF o.err # Nil THEN Result(decoded, o.err)
  ELSE LenientLoop(o.rest, Append(decoded, o.tri))

LenientLoop(stream, decoded) == LenientBranch(decodeTriple(stream), decoded)

\* dec.newDecoderFunc(r).Decode()
RunDecoder(fn, stream) ==
  IF fn = "binary" THEN BinaryDecode(stream) ELSE LenientLoop(stream, <<>>)

Workers == DOMAIN rs

\* NewDatasetDecoder(fn, readers...) and the entry of Decode: the results
\* channel is made with room for len(dec.rs) values, no goroutine runs yet.
DatasetSetup ==
  /\ newDecoderFunc \in {"binary", "lenient"}
  /\ \E n \in 0..NumStreams : origin \in [1..n -> StreamSources]
  /\ rs = [i \in DOMAIN origin |-> StreamBytes(origin[i])]
  /\ wpc = [i \in DOMAIN origin |-> "unborn"]
  /\ wres = [i \in DOMAIN origin |-> NoResult]
  /\ wg = 0 /\ results = <<>> /\ closes = 0
  /\ closerPc = "unborn" /\ mainPc = "spawn"
  /\ all = <<>> /\ errs = <<>> /\ dsRet = NoResult
  /\ sendOrder = <<>>

\* Every stream decoder's Decode returns.
DatasetInit == DatasetSetup /\ hangs = {}

\* Any of the stream decoders may be one whose Decode never returns.
DatasetHangInit == DatasetSetup /\ hangs \in SUBSET DOMAIN origin

\* Decode, one turn of the loop over dec.rs: wg.Add(1) and the go statement.
SpawnWorker ==
  /\ mainPc = "spawn"
  /\ \E i \in Workers :
       /\ wpc[i] = "unborn"
       /\ \A j \in Workers : j < i => wpc[j] # "unborn"
       /\ wpc' = [wpc EXCEPT ![i] = "decode"]
  /\ wg' = wg + 1
  /\ UNCHANGED <<hangs, sendOrder, newDecoderFunc, origin, rs, wres, results, closes, closerPc, mainPc,
                 all, errs, dsRet>>
  /\ UNCHANGED <<codecVars, storeVars, equalVars, sinkVars, textVars, lexVars, rawVars>>

\* Decode, after the loop: the go statement of the goroutine that waits and
\* closes; the caller goes on to range over results.
SpawnCloser ==
  /\ mainPc = "spawn"
  /\ \A i \in Workers : wpc[i] # "unborn"
  /\ closerPc' = "wait"
  /\ mainPc' = "range"
  /\ UNCHANGED <<hangs, sendOrder, newDecoderFunc, origin, rs, wpc, wres, wg, results, closes,
                 all, errs, dsRet>>
  /\ UNCHANGED <<codecVars, storeVars, equalVars, sinkVars, textVars, lexVars, rawVars>>

\* Worker, line 42: tris, err := dec.newDecoderFunc(r).Decode()
WorkerDecode ==
  /\ \E i \in Workers :
       /\ wpc[i] = "decode"
       /\ i \notin hangs
       /\ wres' = [wres EXCEPT ![i] = RunDecoder(newDecoderFunc, rs[i])]
       /\ wpc' = [wpc EXCEPT ![i] = "send"]
  /\ UNCHANGED <<hangs, sendOrder, newDecoderFunc, origin, rs, wg, results, closes, closerPc, mainPc,
                 all, errs, dsRet>>
  /\ UNCHANGED <<codecVars, storeVars, equalVars, sinkVars, textVars, lexVars, rawVars>>

\* Worker, line 43: results <- &result{tris: tris, err: err}.  The send waits
\* for room in the channel; on a closed channel it panics.
WorkerSend ==
  /\ \E i \in Workers :
       /\ wpc[i] = "send"
       /\ IF closes > 0
            THEN /\ wpc' = [wpc EXCEPT ![i] = "panic"]
                 /\ UNCHANGED <<results, sendOrder>>
            ELSE /\ Len(results) < Len(rs)
                 /\ results' = Append(results, wres[i])
                 /\ sendOrder' = Append(sendOrder, i)
                 /\ wpc' = [wpc EXCEPT ![i] = "deferred"]
  /\ UNCHANGED <<hangs, newDecoderFunc, origin, rs, wres, wg, closes, closerPc, mainPc,
                 all, errs, dsRet>>
  /\ UNCHANGED <<codecVars, storeVars, equalVars, sinkVars, textVars, lexVars, rawVars>>

\* A plausible slip: the worker ends without wg.Done().
WorkerDoneForgotten ==
  /\ \E i \in Workers :
       /\ wpc[i] = "deferred"
       /\ wpc' = [wpc EXCEPT ![i] = "done"]
  /\ UNCHANGED <<hangs, sendOrder, newDecoderFunc, origin, rs, wres, wg, results, closes,
                 closerPc, mainPc, all, errs, dsRet>>
  /\ UNCHANGED <<codecVars, storeVars, equalVars, sinkVars, textVars, lexVars, rawVars>>

\* Worker, line 41: the deferred wg.Done() runs as the goroutine returns.
WorkerDone ==
  /\ \E i \in Workers :
       /\ wpc[i] = "deferred"
       /\ wpc' = [wpc EXCEPT ![i] = "done"]
  /\ wg' = wg - 1
  /\ UNCHANGED <<hangs, sendOrder, newDecoderFunc, origin, rs, wres, results, closes, closerPc, mainPc,
                 all, errs, dsRet>>
  /\ UNCHANGED <<codecVars, storeVars, equalVars, sinkVars, textVars, lexVars, rawVars>>

\* A plausible slip: close(results) without waiting for the workers.
WgWaitNoWait ==
  /\ closerPc = "wait"
  /\ closerPc' = "close"
  /\ UNCHANGED <<hangs, sendOrder, newDecoderFunc, origin, rs, wpc, wres, wg, results, closes, mainPc,
                 all, errs, dsRet>>
  /\ UNCHANGED <<codecVars, storeVars, equalVars, sinkVars, textVars, lexVars, rawVars>>

\* Closer, line 48: wg.Wait() returns once the counter is zero.
WgWait ==
  /\ closerPc = "wait"
  /\ wg = 0
  /\ closerPc' = "close"
  /\ UNCHANGED <<hangs, sendOrder, newDecoderFunc, origin, rs, wpc, wres, wg, results, closes, mainPc,
                 all, errs, dsRet>>
  /\ UNCHANGED <<codecVars, storeVars, equalVars, sinkVars, textVars, lexVars, rawVars>>

\* Closer, line 49: close(results)
CloseResults ==
  /\ closerPc = "close"
  /\ closes' = closes + 1
  /\ closerPc' = "done"
  /\ UNCHANGED <<hangs, sendOrder, newDecoderFunc, origin, rs, wpc, wres, wg, results, mainPc,
                 all, errs, dsRet>>
  /\ UNCHANGED <<codecVars, storeVars, equalVars, sinkVars, textVars, lexVars, rawVars>>

\* A plausible slip: the triples of a result put in front of those received
\* before, and its error in front of the errors kept.
ReceiveInFront ==
  /\ mainPc = "range"
  /\ results # <<>>
  /\ LET res == Head(results)
     IN  /\ errs' = IF res.err # Nil THEN <<res.err>> \o errs ELSE errs
         /\ all' = res.tris \o all
  /\ results' = Tail(results)
  /\ UNCHANGED <<hangs, sendOrder, newDecoderFunc, origin, rs, wpc, wres, wg, closes,
                 closerPc, mainPc, dsRet>>
  /\ UNCHANGED <<codecVars, storeVars, equalVars, sinkVars, textVars, lexVars, rawVars>>

\* Decode, one turn of "for r := range results": a value is received, its
\* error kept when not nil, its triples appended.
Receive ==
  /\ mainPc = "range"
  /\ results # <<>>
  /\ LET res == Head(results)
     IN  /\ errs' = IF res.err # Nil THEN Append(errs, res.err) ELSE errs
         /\ all' = all \o res.tris
  /\ results' = Tail(results)
  /\ UNCHANGED <<hangs, sendOrder, newDecoderFunc, origin, rs, wpc, wres, wg, closes, closerPc, mainPc,
                 dsRet>>
  /\ UNCHANGED <<codecVars, storeVars, equalVars, sinkVars, textVars, lexVars, rawVars>>

\* A plausible slip: all or nothing, no triple returned once a stream failed.
DatasetResultAllOrNothing(allTris, errors) ==
  IF Len(errors) > 0 THEN Result(<<>>, errors[1]) ELSE Result(allTris, Nil)

\* Decode, lines 61-65: what is returned once the range loop has ended.
DatasetResult(allTris, errors) ==
  IF Len(errors) > 0 THEN Result(allTris, errors[1]) ELSE Result(allTris, Nil)

\* Decode: the range loop ends when the channel is closed and empty; Decode
\* returns.
DatasetReturn ==
  /\ mainPc = "range"
  /\ results = <<>>
  /\ closes > 0
  /\ dsRet' = DatasetResult(all, errs)
  /\ mainPc' = "done"
  /\ UNCHANGED <<hangs, sendOrder, newDecoderFunc, origin, rs, wpc, wres, wg, results, closes, closerPc,
                 all, errs>>
  /\ UNCHANGED <<codecVars, storeVars, equalVars, sinkVars, textVars, lexVars, rawVars>>

InitDataset == DatasetInit /\ CodecIdle /\ StoreIdle /\ EqualIdle /\ RestIdle

NextDataset ==
  \/ SpawnWorker
  \/ SpawnCloser
  \/ WorkerDecode
  \/ WorkerSend
  \/ WorkerDone
  \/ WgWait
  \/ CloseResults
  \/ Receive
  \/ DatasetReturn

SpecDataset == InitDataset /\ [][NextDataset]_vars

\* The same call with stream decoders that may never return, under the Go
\* scheduler: while some goroutine can take a step, a step is taken.
InitDatasetLive == DatasetHangInit /\ CodecIdle /\ StoreIdle /\ EqualIdle /\ RestIdle

\* What each kind of stream decoder returns on each of the streams.
DecoderOutcome ==
  [fn \in {"binary", "lenient"} |->
     [src \in StreamSources |-> RunDecoder(fn, StreamBytes(src))]]

\* The step by which some worker's Decode call returns (WorkerDecode, with
\* the value returned looked up by the stream the worker reads).
DecodeReturns ==
  /\ \E i \in Workers :
       /\ wpc[i] = "decode"
       /\ i \notin hangs
       /\ wres' = [wres EXCEPT ![i] = DecoderOutcome[newDecoderFunc][origin[i]]]
       /\ wpc' = [wpc EXCEPT ![i] = "send"]
  /\ UNCHANGED <<hangs, sendOrder, newDecoderFunc, origin, rs, wg, results, closes, closerPc, mainPc,
                 all, errs, dsRet>>
  /\ UNCHANGED <<codecVars, storeVars, equalVars, sinkVars, textVars, lexVars, rawVars>>

\* A step of some goroutine of the call.
Scheduled ==
  \/ SpawnWorker \/ SpawnCloser
  \/ DecodeReturns \/ WorkerSend \/ WorkerDone
  \/ WgWait \/ CloseResults
  \/ Receive \/ DatasetReturn

FairDataset == WF_vars(Scheduled)

SpecDatasetLive == InitDatasetLive /\ [][NextDataset]_vars /\ FairDataset

\* -------------------------------------------------------- source, snapshot
\* The store keeps its triples in one append-only list; a snapshot pins the
\* length the list had when it was taken and reads no further.
StoreTriples ==
  { triple(<<97>>, <<110>>, LiteralObject(XsdString, <<98>>)),
    triple(<<98>>, <<110>>, LiteralObject(XsdString, <<98>>)),
    triple(<<97>>, <<103>>, LiteralObject(XsdInteger, <<51, 50>>)),
    triple(<<98>>, <<110>>, object(TRUE, <<120>>, literal(XsdString, <<98>>))) }

\* The predicates and objects WithPredObj is asked for: those of the triples
\* above, a resource and an integer literal holding the string of a stored
\* literal, and a predicate no triple has.
QueryPredicates == {<<110>>, <<103>>, <<120>>}

QueryObjects ==
  { LiteralObject(XsdString, <<98>>), LiteralObject(XsdInteger, <<51, 50>>),
    LiteralObject(XsdInteger, <<98>>), ResourceObject(<<98>>) }

\* The index entries for predicate p and an object Equal to o.
IndexHits(idx, p, o) ==
  {k \in DOMAIN idx : idx[k].pred = p /\ ObjectEqual(idx[k].obj, o)}

\* The index after the triple t, stored at position pos, has been entered.
IndexAdd(idx, t, pos) ==
  IF IndexHits(idx, t.pred, t.obj) = {}
    THEN Append(idx, [pred |-> t.pred, obj |-> t.obj, at |-> <<pos>>])
    ELSE [k \in DOMAIN idx |->
            IF k \in IndexHits(idx, t.pred, t.obj)
              THEN [idx[k] EXCEPT !.at = Append(@, pos)]
              ELSE idx[k]]

\* The index after the triples ts, stored from position base + 1 on, have
\* been entered.
RECURSIVE IndexAll(_, _, _)
IndexAll(idx, ts, base) ==
  IF ts = <<>> THEN idx
  ELSE IndexAll(IndexAdd(idx, Head(ts), base + 1), Tail(ts), base + 1)

\* The triples at the positions of the list at that a snapshot views.
TriplesAt(at, gen) ==
  LET inView == SelectSeq(at, LAMBDA pos : pos <= gen)
  IN  [j \in 1..Len(inView) |-> store[inView[j]]]

\* A plausible slip: the index read without regard to the snapshot's
\* generation.
WithPredObjLive(snap, p, o) ==
  IF IndexHits(index, p, o) = {} THEN <<>>
  ELSE TriplesAt(index[CHOOSE k \in IndexHits(index, p, o) : TRUE].at, Len(store))

\* Snapshot.WithPredObj(predicate, object)
WithPredObj(snap, p, o) ==
  IF IndexHits(index, p, o) = {} THEN <<>>
  ELSE TriplesAt(index[CHOOSE k \in IndexHits(index, p, o) : TRUE].at, snap.gen)

\* A plausible slip: the snapshot reads the Source's list as it is now.
SnapshotTriplesLive(snap) == store

\* The triples a snapshot views.
SnapshotTriples(snap) == SubSeq(store, 1, snap.gen)

\* Snapshot.Count()
Count(snap) == Len(SnapshotTriples(snap))

\* NewSource()
StoreInit == store = <<>> /\ snaps = <<>> /\ seen = <<>> /\ index = <<>> /\ found = NoQuery

\* Source.Add(triples...)
Add ==
  /\ \E ts \in SeqsUpTo(StoreTriples, 2) :
       /\ Len(store) + Len(ts) <= MaxStore
       /\ store' = store \o ts
       /\ index' = IndexAll(index, ts, Len(store))
  /\ UNCHANGED <<snaps, seen, found>>
  /\ UNCHANGED <<codecVars, datasetVars, equalVars, sinkVars, textVars, lexVars, rawVars>>

\* Source.Snapshot()
Snapshot ==
  /\ Len(snaps) < MaxSnaps
  /\ snaps' = Append(snaps, [gen |-> Len(store)])
  /\ seen' = Append(seen, store)
  /\ UNCHANGED <<store, index, found>>
  /\ UNCHANGED <<codecVars, datasetVars, equalVars, sinkVars, textVars, lexVars, rawVars>>

\* snap.WithPredObj(p, o) on one of the snapshots taken.
Query ==
  /\ found = NoQuery
  /\ \E k \in DOMAIN snaps, p \in QueryPredicates, o \in QueryObjects :
       found' = [snap |-> k, pred |-> p, obj |-> o, res |-> WithPredObj(snaps[k], p, o)]
  /\ UNCHANGED <<store, snaps, seen, index>>
  /\ UNCHANGED <<codecVars, datasetVars, equalVars, sinkVars, textVars, lexVars, rawVars>>

InitStore == StoreInit /\ CodecIdle /\ DatasetIdle /\ EqualIdle /\ RestIdle

NextStore ==
  \/ Add
  \/ Snapshot
  \/ Query

SpecStore == InitStore /\ [][NextStore]_vars

\* ------------------------------------------------------------ Triple.Equal
\* Every object value the struct can hold over two strings per field.
EqualStrings == {<<>>, <<49>>}

EqualObjects ==
  {object(l, id, literal(ty, v)) :
     l \in BOOLEAN, id \in EqualStrings, ty \in {<<>>, XsdString}, v \in EqualStrings}

EqualTriples ==
  {triple(sb, p, o) : sb \in EqualStrings, p \in EqualStrings, o \in EqualObjects}
    \cup {NilTriple}

EqualInit == t1 \in EqualTriples /\ t2 \in EqualTriples /\ eq = <<>> /\ oeq = <<>>

\* t1.Equal(t1), t1.Equal(t2) and t2.Equal(t1)
Compare ==
  /\ eq = <<>>
  /\ eq' = <<TripleEqual(t1, t1), TripleEqual(t1, t2), TripleEqual(t2, t1)>>
  /\ UNCHANGED <<t1, t2, oeq>>
  /\ UNCHANGED <<codecVars, datasetVars, storeVars, sinkVars, textVars, lexVars, rawVars>>

\* t1.Object().Equal(t2.Object()) and t2.Object().Equal(t1.Object())
CompareObjects ==
  /\ oeq = <<>>
  /\ t1 # NilTriple /\ t2 # NilTriple
  /\ oeq' = <<ObjectEqual(t1.obj, t2.obj), ObjectEqual(t2.obj, t1.obj)>>
  /\ UNCHANGED <<t1, t2, eq>>
  /\ UNCHANGED <<codecVars, datasetVars, storeVars, sinkVars, textVars, lexVars, rawVars>>

InitEqual == EqualInit /\ CodecIdle /\ DatasetIdle /\ StoreIdle /\ RestIdle

NextEqual ==
  \/ Compare
  \/ CompareObjects

SpecEqual == InitEqual /\ [][NextEqual]_vars

\* ----------------------------------------------- properties of the codec
\* How often a triple Equal to t occurs in the list l.
CountEqual(l, t) == Cardinality({i \in DOMAIN l : TripleEqual(l[i], t)})

\* The lists a and b hold the same triples the same number of times, triples
\* being compared with Triple.Equal.
SameMultiset(a, b) ==
  /\ Len(a) = Len(b)
  /\ \A i \in DOMAIN a : CountEqual(a, a[i]) = CountEqual(b, a[i])
  /\ \A i \in DOMAIN b : CountEqual(a, b[i]) = CountEqual(b, b[i])

\* The stream offsets at which a triple of ts ends (0 included), by the wire
\* format's layout: 4 + len per word, 1 for the kind byte.
WordSize(s) == 4 + Len(s)

TripleSize(t) ==
  WordSize(t.sub) + WordSize(t.pred) + 1 +
    (IF t.obj.isLit THEN WordSize(t.obj.lit.typ) + WordSize(t.obj.lit.val)
                    ELSE WordSize(t.obj.resourceID))

RECURSIVE SizeOf(_)
SizeOf(ts) == IF ts = <<>> THEN 0 ELSE TripleSize(Head(ts)) + SizeOf(Tail(ts))

Boundaries(ts) == {SizeOf(SubSeq(ts, 1, k)) : k \in 0..Len(ts)}

\* The number of triples of ts that lie whole within the first k bytes.
WholeTriples(ts, k) ==
  Cardinality({n \in 1..Len(ts) : SizeOf(SubSeq(ts, 1, n)) <= k})

\* The first field of the triple t that its first off bytes do not hold in
\* full, named as the wire format names it.
FieldAt(t, off) ==
  IF off < WordSize(t.sub) THEN "subject"
  ELSE IF off < WordSize(t.sub) + WordSize(t.pred) THEN "predicate"
  ELSE IF off < WordSize(t.sub) + WordSize(t.pred) + 1 THEN "object type"
  ELSE IF ~t.obj.isLit THEN "resource"
  ELSE IF off < WordSize(t.sub) + WordSize(t.pred) + 1 + WordSize(t.obj.lit.typ)
    THEN "literal type"
  ELSE "literal value"

\* The same for the triple of ts that the first k bytes cut short, n whole
\* triples coming before it.
FieldAfter(ts, k, n) == FieldAt(ts[n + 1], k - SizeOf(SubSeq(ts, 1, n)))

FirstUnreadField(ts, k) == FieldAfter(ts, k, WholeTriples(ts, k))

\* The word the decoder's error message opens with for each field.
FieldInMessage(f) ==
  CASE f = "literal type" -> "literate type"
    [] f = "literal value" -> "literate"
    [] OTHER -> f

\* C1: encoding any list of triples and decoding the bytes written with a
\* fresh decoder returns a nil error and the same multiset of triples under
\* Triple.Equal.
C1_RoundTrip ==
  (pc = "done" /\ cut = Len(w)) =>
    /\ decRet.err = Nil
    /\ SameMultiset(decRet.tris, tris)

\* A whole stream holding a resource triple, a literal triple and an empty
\* subject has been decoded.
C1_Witness ==
  /\ pc = "done" /\ cut = Len(w) /\ Len(tris) = MaxTriples
  /\ \E i, j \in DOMAIN tris :
       /\ tris[i].obj.isLit /\ ~tris[j].obj.isLit
       /\ tris[i].sub = <<>> /\ tris[j].obj.resourceID = <<>>
  /\ Len(decRet.tris) = MaxTriples

\* C5: on a prefix of a valid encoding, Decode returns a nil error exactly
\* when the prefix ends at a triple boundary.
C5_CleanEndOnlyAtBoundary ==
  pc = "done" => (decRet.err = Nil <=> cut \in Boundaries(tris))

\* A stream that ends between the subject and the predicate of its second
\* triple has been decoded, with an error.
C5_Witness ==
  /\ pc = "done" /\ Len(tris) >= 2
  /\ cut = TripleSize(tris[1]) + WordSize(tris[2].sub)
  /\ decRet.err # Nil

\* C6 as stated: a Decode that fails after decoding some triples returns
\* those triples with the error.
C6_PartialWithError ==
  (pc = "done" /\ decRet.err # Nil /\ decTriples # <<>>) => decRet.tris = decTriples

\* C6 as the code has it: a Decode that fails after decoding some triples
\* returns no triple with the error; the triples decoded so far, the whole
\* triples of the stream, stay in dec.triples.
C6_NilWithError ==
  (pc = "done" /\ decRet.err # Nil /\ decTriples # <<>>) =>
    /\ decRet.tris = <<>>
    /\ Len(decTriples) = WholeTriples(tris, cut)
    /\ \A i \in DOMAIN decTriples : TripleEqual(decTriples[i], tris[i])

\* Decode has failed on the second triple of a stream.
C6_Witness ==
  pc = "done" /\ decRet.err # Nil /\ Len(decTriples) = 1 /\ Len(tris) = 2

\* C7: the error of a truncated stream opens with the name of the first
\* field of the failing triple that the stream does not hold in full.
C7_ErrorNamesField ==
  (pc = "done" /\ decRet.err # Nil) =>
    Head(decRet.err) = FieldInMessage(FirstUnreadField(tris, cut))

\* Decode has failed in the literal value of a triple that follows a whole one.
C7_Witness ==
  /\ pc = "done" /\ decRet.err # Nil /\ Len(decTriples) >= 1
  /\ FirstUnreadField(tris, cut) = "literal value"
  /\ Head(decRet.err) = "literate"

\* C8: Decode on a zero-length input returns an empty list and a nil error.
C8_EmptyInput ==
  (pc = "done" /\ cut = 0) => decRet = Result(<<>>, Nil)

\* Decode has returned on a zero-length stream cut from a non-empty output.
C8_Witness ==
  pc = "done" /\ cut = 0 /\ Len(w) > 0 /\ decRet.err = Nil

\* ------------------------------------- properties of the dataset decoder
RECURSIVE ConcatUpTo(_, _)
ConcatUpTo(lists, n) == IF n = 0 THEN <<>> ELSE ConcatUpTo(lists, n - 1) \o lists[n]

\* The lists of a family indexed 1..n, one after the other.
ConcatAll(lists) == ConcatUpTo(lists, Len(lists))

\* The streams that end at a triple boundary, and the triples each holds.
ValidStreams == {i \in Workers : origin[i].cut \in Boundaries(origin[i].ts)}

ValidTriples(i) ==
  IF i \in ValidStreams
    THEN SubSeq(origin[i].ts, 1, WholeTriples(origin[i].ts, origin[i].cut))
    ELSE <<>>

\* C2: whatever the interleaving, Decode returns the multiset union of the
\* lists the stream decoders returned, and an error exactly when a stream
\* decoder returned one, that error being one of theirs.
C2_MergesEveryResult ==
  mainPc = "done" =>
    /\ SameMultiset(dsRet.tris, ConcatAll([i \in Workers |-> wres[i].tris]))
    /\ dsRet.err # Nil <=> \E i \in Workers : wres[i].err # Nil
    /\ dsRet.err # Nil => \E i \in Workers : wres[i].err # Nil /\ wres[i].err = dsRet.err

\* Decode has returned with one stream that failed after yielding triples
\* and one stream that yielded triples without failing.
C2_Witness ==
  /\ mainPc = "done"
  /\ \E i, j \in Workers :
       /\ wres[i].err # Nil /\ wres[i].tris # <<>>
       /\ wres[j].err = Nil /\ wres[j].tris # <<>>
  /\ dsRet.err # Nil

\* C4: with binary decoders, when some stream is truncated Decode returns a
\* non-nil error and exactly the triples of the valid streams; a truncated
\* stream adds none, whole triples before its truncation point included.
C4_TruncatedStreamAddsNothing ==
  (mainPc = "done" /\ newDecoderFunc = "binary" /\ ValidStreams # Workers) =>
    /\ dsRet.err # Nil
    /\ SameMultiset(dsRet.tris, ConcatAll([i \in Workers |-> ValidTriples(i)]))

\* Decode has returned over a valid stream holding triples and a stream
\* truncated after a whole triple.
C4_Witness ==
  /\ mainPc = "done" /\ newDecoderFunc = "binary"
  /\ \E i, j \in Workers :
       /\ i \in ValidStreams /\ ValidTriples(i) # <<>>
       /\ j \notin ValidStreams /\ WholeTriples(origin[j].ts, origin[j].cut) >= 1
  /\ dsRet.tris # <<>>

\* C9: Decode returns only after every worker has sent its result and ended
\* and every result has been received; results is closed once, and only
\* after the last worker's send.
C9_ReturnsAfterEveryWorker ==
  /\ closes <= 1
  /\ closes = 1 => \A i \in Workers : wpc[i] = "done"
  /\ \A i \in Workers : wpc[i] # "panic"
  /\ mainPc = "done" =>
       /\ closes = 1
       /\ results = <<>>
       /\ \A i \in Workers : wpc[i] = "done" /\ wres[i] # NoResult

\* Decode has returned over as many streams as the model runs.
C9_Witness == mainPc = "done" /\ Len(rs) = NumStreams /\ closes = 1

\* ----------------------------------------------- properties of the store
\* C3: a snapshot taken when the Source held N triples reports Count() = N
\* and views the same triples after any later Add; a snapshot taken after M
\* more triples were added reports N + M.
C3_SnapshotIsolation ==
  \A k \in DOMAIN snaps :
    /\ Count(snaps[k]) = Len(seen[k])
    /\ SnapshotTriples(snaps[k]) = seen[k]

\* A snapshot was taken of a Source holding triples, more triples were added
\* and a second snapshot was taken.
C3_Witness ==
  /\ Len(snaps) = 2
  /\ Count(snaps[1]) >= 1
  /\ Count(snaps[2]) > Count(snaps[1])
  /\ Len(store) > Count(snaps[2])

\* ------------------------------------------------ properties of Equal
\* What an object holds as a union: its variant and that variant's fields.
ObjectValue(o) ==
  IF o.isLit THEN <<"literal", o.lit.typ, o.lit.val>> ELSE <<"resource", o.resourceID, <<>>>>

Differ(a, b) ==
  a.sub # b.sub \/ a.pred # b.pred \/ ObjectValue(a.obj) # ObjectValue(b.obj)

\* C10: Equal is reflexive on every non-nil triple, and false in both
\* argument orders on two triples that differ in subject, predicate or object.
C10_EqualReflexiveAndSeparating ==
  eq # <<>> =>
    /\ t1 # NilTriple => eq[1]
    /\ (t1 # NilTriple /\ t2 # NilTriple /\ Differ(t1, t2)) => ~eq[2] /\ ~eq[3]

\* Two triples that differ in the predicate alone have been compared.
C10_Witness ==
  /\ eq # <<>> /\ t1 # NilTriple /\ t2 # NilTriple
  /\ t1.sub = t2.sub /\ t1.obj = t2.obj /\ t1.pred # t2.pred
  /\ eq = <<TRUE, FALSE, FALSE>>

\* Two objects have the same variant and, as literals, the same type and
\* value or, as resources, the same identifier.
SameVariantAndPayload(a, b) ==
  /\ a.isLit = b.isLit
  /\ a.isLit => (a.lit.typ = b.lit.typ /\ a.lit.val = b.lit.val)
  /\ ~a.isLit => a.resourceID = b.resourceID

\* C11: object.Equal is true, in both argument orders, exactly when the two
\* objects have the same variant and equal (type, value) pairs as literals or
\* equal identifiers as resources; a literal never equals a resource and the
\* fields of the inactive variant do not count.
C11_ObjectEqualByVariant ==
  oeq # <<>> =>
    /\ oeq[1] = SameVariantAndPayload(t1.obj, t2.obj)
    /\ oeq[2] = SameVariantAndPayload(t1.obj, t2.obj)
    /\ t1.obj.isLit # t2.obj.isLit => ~oeq[1]

\* Two literals with the same type and value and different resourceID fields
\* have been compared and found equal.
C11_Witness ==
  /\ oeq = <<TRUE, TRUE>>
  /\ t1.obj.isLit /\ t2.obj.isLit
  /\ t1.obj.lit = t2.obj.lit
  /\ t1.obj.resourceID # t2.obj.resourceID

\* ------------------------------------- properties of the text format
\* The line the N-Triples format has for a triple, part by part.
ExpectedSuffix(typ) ==
  CASE typ = XsdBoolean -> <<94, 94, 60>> \o BooleanIRI \o <<62>>
    [] typ = XsdDateTime -> <<94, 94, 60>> \o DateTimeIRI \o <<62>>
    [] typ = XsdInteger -> <<94, 94, 60>> \o IntegerIRI \o <<62>>
    [] OTHER -> <<>>

ExpectedObject(o) ==
  IF o.isLit THEN <<34>> \o o.lit.val \o <<34>> \o ExpectedSuffix(o.lit.typ)
  ELSE <<60>> \o o.resourceID \o <<62>>

ExpectedLine(t) ==
  <<60>> \o t.sub \o <<62, 32, 60>> \o t.pred \o <<62, 32>> \o ExpectedObject(t.obj)
    \o <<32, 46, 10>>

\* The bytes from index i on of the text written, the lines of the triples
\* before ts[n] taken off.
RECURSIVE LineStart(_, _)
LineStart(ts, n) == IF n = 1 THEN 1 ELSE LineStart(ts, n - 1) + Len(ExpectedLine(ts[n - 1]))

WrittenLine(n) == SubSeq(w, LineStart(tris, n), LineStart(tris, n) + Len(ExpectedLine(tris[n])) - 1)

\* The tags the encoder annotates.
AnnotatedTags == {XsdBoolean, XsdDateTime, XsdInteger}

\* Whether the line of a literal triple carries a datatype suffix: "^^<"
\* after the closing quote, which is at index QuotedEnd.
QuotedEnd(t) == Len(t.sub) + Len(t.pred) + 6 + Len(t.obj.lit.val) + 2

HasSuffix(line, t) ==
  /\ Len(line) >= QuotedEnd(t) + 3
  /\ SubSeq(line, QuotedEnd(t) + 1, QuotedEnd(t) + 3) = <<94, 94, 60>>

\* C13: the N-Triples encoder writes a literal with a ^^<iri> suffix exactly
\* when its tag is boolean, dateTime or integer, the IRI being the XMLSchema
\* one of that tag; any other literal is the quoted value alone, and a
\* resource is <id> with no quoted part.
C13_SuffixOnlyForAnnotatedTags ==
  pc \in {"ntencoded", "parsed"} =>
    /\ Len(w) = LineStart(tris, Len(tris) + 1) - 1
    /\ \A n \in DOMAIN tris :
         /\ WrittenLine(n) = ExpectedLine(tris[n])
         /\ tris[n].obj.isLit =>
              (HasSuffix(WrittenLine(n), tris[n]) <=> tris[n].obj.lit.typ \in AnnotatedTags)

\* Encode has written an integer literal and a literal of a custom tag.
C13_Witness ==
  /\ pc = "ntencoded" /\ Len(tris) = 2
  /\ tris[1].obj.isLit /\ tris[1].obj.lit.typ = XsdInteger
  /\ tris[2].obj.isLit /\ tris[2].obj.lit.typ = <<109>>
  /\ HasSuffix(WrittenLine(1), tris[1]) /\ ~HasSuffix(WrittenLine(2), tris[2])

\* The triples the round trip is claimed for.
Annotated(t) == ~t.obj.isLit \/ t.obj.lit.typ \in AnnotatedTags

\* C12 as stated: parsing the text the N-Triples encoder wrote for triples
\* with resource objects or boolean, dateTime or integer literals returns
\* triples Equal to the originals.
C12_TextRoundTrip ==
  (pc = "parsed" /\ \A n \in DOMAIN tris : Annotated(tris[n])) =>
    /\ parsed.err = Nil
    /\ Len(parsed.tris) = Len(tris)
    /\ \A n \in DOMAIN tris : TripleEqual(parsed.tris[n], tris[n])

\* The text written is before, followed by less than the whole of chunk.
WrittenShortOf(before, chunk) ==
  \E n \in 0..(Len(chunk) - 1) : w = before \o SubSeq(chunk, 1, n)

\* C18: either encoder writes the triples in argument order, one Write per
\* triple; at the first Write the sink rejects, Encode returns the sink's
\* error as it is and calls Write no more: the triples before are written in
\* full, the triples after not at all.
C18_SinkErrorEndsEncode ==
  /\ writes <= Len(tris)
  /\ pc = "encoded" => (encRet = Nil /\ writes = Len(tris) /\ w = EncodeAll(tris))
  /\ pc \in {"ntencoded", "parsed"} =>
       (encRet = Nil /\ writes = Len(tris) /\ w = NTEncodeAll(tris))
  /\ pc = "write failed" =>
       /\ encRet = SinkError /\ writes = encPos
       /\ WrittenShortOf(EncodeAll(SubSeq(tris, 1, encPos - 1)), encodeTriple(tris[encPos]))
  /\ pc = "ntwrite failed" =>
       /\ encRet = SinkError /\ writes = encPos
       /\ WrittenShortOf(NTEncodeAll(SubSeq(tris, 1, encPos - 1)), ntEncodeTriple(tris[encPos]))
  /\ pc \in {"encode", "ntencode"} => encRet = NoReturn

\* The sink has rejected the second Write of an Encode of two triples.
C18_Witness ==
  /\ pc \in {"write failed", "ntwrite failed"}
  /\ Len(tris) = 2 /\ encPos = 2 /\ writes = 2
  /\ encRet = SinkError
  /\ Len(w) > 0

\* ------------------------------------------ properties of WithPredObj
\* How often the triple t occurs in the list l.
Occurrences(l, t) == Cardinality({j \in DOMAIN l : l[j] = t})

\* The triple t has predicate p and an object that is o as a union value.
Matches(t, p, o) == t.pred = p /\ ObjectValue(t.obj) = ObjectValue(o)

\* C14: WithPredObj(p, o) on a snapshot returns the triples of its view
\* whose predicate is p and whose object equals o, each as many times as it
\* was added before the snapshot was taken, and nothing else; it is empty
\* when no triple of the view matches.
C14_WithPredObjExact ==
  found # NoQuery =>
    /\ \A j \in DOMAIN found.res : found.res[j] \in StoreTriples
    /\ \A t \in StoreTriples :
         Occurrences(found.res, t) =
           IF Matches(t, found.pred, found.obj)
             THEN Occurrences(seen[found.snap], t)
             ELSE 0

\* A query has returned two triples that differ in the unused field of their
\* objects, from a snapshot of a Source that was given one more matching
\* triple afterwards.
C14_Witness ==
  /\ found # NoQuery
  /\ Len(found.res) = 2
  /\ Len(seen[found.snap]) = 2
  /\ \E i, j \in DOMAIN found.res : found.res[i] # found.res[j]
  /\ Len(store) = MaxStore
  /\ Matches(store[MaxStore], found.pred, found.obj)

\* ------------------------------------------ properties of the lexer
\* The indices of txt the scan stops at: a backslash takes the character
\* after it along.
RECURSIVE ScannedFrom(_, _)
ScannedFrom(txt, i) ==
  IF i > Len(txt) THEN {}
  ELSE {i} \cup ScannedFrom(txt, IF txt[i] = 92 THEN i + 2 ELSE i + 1)

\* The content before the first index of ends, nothing when ends is empty.
ContentBefore(txt, ends) ==
  IF ends = {} THEN <<>>
  ELSE SubSeq(txt, 1, (CHOOSE i \in ends : \A j \in ends : i <= j) - 1)

\* The terminator of the read that was made.
TerminatorOf(read) == IF read = "readIRI" THEN 62 ELSE 34

\* The unescaped terminators followed at once by the end of the input, by
\* whitespace, '.', '<' or '"'.
EndsByNextCharacter(txt, term) ==
  {i \in ScannedFrom(txt, 1) :
     /\ txt[i] = term
     /\ i = Len(txt) \/ txt[i + 1] \in {9, 10, 13, 32, 46, 60, 34}}

\* C15 as stated: a bounded read ends at the first unescaped terminator whose
\* next character is the end of the input, whitespace, '.', '<' or '"', and
\* returns the content before it, or the empty string when there is none.
C15_EndsByNextCharacter ==
  lexRet # <<>> =>
    lexRet[2] = ContentBefore(input, EndsByNextCharacter(input, TerminatorOf(lexRet[1])))

\* The character at index j is the first after index i that is not
\* whitespace, the end of the input (0) counting as one, and it is in set.
NextNonSpaceIn(txt, i, j, set) ==
  /\ \A k \in (i + 1)..(j - 1) : txt[k] \in {9, 10, 13, 32}
  /\ IF j > Len(txt) THEN 0 \in set ELSE txt[j] \notin {9, 10, 13, 32} /\ txt[j] \in set

\* The delimiters of each read: the end of the input, '.', '<' and '"', and
\* for a string literal '^' as well.
DelimitersOf(read) == IF read = "readIRI" THEN {0, 46, 60, 34} ELSE {0, 46, 60, 34, 94}

\* The unescaped terminators whose next character that is not whitespace is
\* a delimiter of the read.
EndsByNextNonSpace(txt, read) ==
  {i \in ScannedFrom(txt, 1) :
     /\ txt[i] = TerminatorOf(read)
     /\ \E j \in (i + 1)..(Len(txt) + 1) : NextNonSpaceIn(txt, i, j, DelimitersOf(read))}

\* C15 as the lexer has it: a bounded read ends at the first unescaped
\* terminator whose next character that is not whitespace is the end of the
\* input, '.', '<' or '"' or, for a string literal, '^'; any other
\* terminator is content; the read returns the content before the ending
\* terminator, or the empty string when there is none.  On the inputs of
\* the two test tables the reads return what the tables expect.
C15_EndsByNextNonSpace ==
  lexRet # <<>> =>
    /\ lexRet[2] = ContentBefore(input, EndsByNextNonSpace(input, lexRet[1]))
    /\ lexRet[1] = "readIRI" =>
         \A c \in ReadIRICases : c[1] = input => lexRet[2] = c[2]
    /\ lexRet[1] = "readStringLiteral" =>
         \A c \in ReadStringLiteralCases : c[1] = input => lexRet[2] = c[2]

\* readIRI has kept a '>' that a space and a letter follow, and ended at a
\* later '>'.
C15_Witness ==
  /\ lexRet # <<>> /\ lexRet[1] = "readIRI"
  /\ \E i \in 1..(Len(input) - 2) :
       /\ input[i] = 62 /\ input[i + 1] = 32 /\ input[i + 2] = 97
       /\ Len(lexRet[2]) >= i + 2


\* ---------------------------------------------------------------------
\* Termination of datasetDecoder.Decode (SpecDatasetLive).

\* The per-stream decoders all return.
EveryDecoderReturns == hangs = {}

\* Decode has returned to its caller.
DecodeReturned == mainPc = "done"

\* Worker i is about to send its result.
AboutToSend(i) == wpc[i] = "send"

\* A send on results goes through at once: the channel is open and has room.
SendGoesThrough == closes = 0 /\ Len(results) < Len(rs)

\* C16: datasetDecoder.Decode terminates exactly when every per-stream
\* decoder returns.  When all of them return, the channel gets closed and
\* Decode returns, for any number of streams; with no stream at all it
\* returns an empty list and a nil error.  A worker that is about to send
\* its result never has to wait for the send.  When some stream's decoder
\* never returns, Decode never returns.
C16_TerminatesIffDecodersReturn ==
  /\ EveryDecoderReturns ~> (closes = 1 /\ DecodeReturned)
  /\ [](\A i \in Workers : AboutToSend(i) => SendGoesThrough)
  /\ []((DecodeReturned /\ rs = <<>>) => dsRet = Result(<<>>, Nil))
  /\ [](~EveryDecoderReturns => ~DecodeReturned /\ closes = 0)

\* One stream's decoder hangs while every other worker has ended and all
\* their results have been collected: the closer still waits and the
\* collecting loop still ranges over the open channel.
C16_Witness ==
  /\ Len(rs) = NumStreams
  /\ hangs # {} /\ hangs # Workers
  /\ \A i \in Workers \ hangs : wpc[i] = "done"
  /\ results = <<>> /\ Len(sendOrder) = Cardinality(Workers \ hangs)
  /\ Len(errs) + Len(all) > 0
  /\ closerPc = "wait" /\ mainPc = "range"


\* ---------------------------------------------------------------------
\* Which error and which order datasetDecoder.Decode returns (SpecDataset).

\* The result worker number k in sending order sent.
SentResult(k) == wres[sendOrder[k]]

\* The workers that failed, by their place in the sending order.
FailedPlaces == {k \in DOMAIN sendOrder : SentResult(k).err # Nil}

\* The first of them.
FirstFailedPlace == CHOOSE k \in FailedPlaces : \A j \in FailedPlaces : k <= j

\* C17: the results are received in the order the workers sent them, which
\* is any order of the workers.  The error Decode reports is the error
\* of the failing worker whose result came first in that order, whatever
\* the place of its reader among the readers, and the list Decode returns
\* is the workers' lists one after the other in that order, each list
\* whole and in its own order.
C17_FirstReceivedErrorInSendOrder ==
  mainPc = "done" =>
    /\ Len(sendOrder) = Len(rs)
    /\ {sendOrder[k] : k \in DOMAIN sendOrder} = Workers
    /\ dsRet.tris = ConcatAll([k \in DOMAIN sendOrder |-> SentResult(k).tris])
    /\ FailedPlaces # {} => dsRet.err = SentResult(FirstFailedPlace).err

\* Both of two streams failed, with different errors; the worker of the
\* second reader sent first, and Decode returned its error and put its
\* triples first.
C17_Witness ==
  /\ mainPc = "done" /\ Len(rs) = 2
  /\ wres[1].err # Nil /\ wres[2].err # Nil /\ wres[1].err # wres[2].err
  /\ sendOrder = <<2, 1>>
  /\ dsRet.err = wres[2].err
  /\ wres[2].tris # <<>> /\ dsRet.tris = wres[2].tris \o wres[1].tris


\* ---------------------------------------------------------------------
\* Decode called again on a decoder that failed (SpecDecoder).

\* C19: once Decode has returned an error on a truncated stream, every later
\* Decode call on the same decoder returns a non-nil error too, so the
\* triples read before the truncation point never come back from a Decode
\* that reports success.
C19_KeepsFailing ==
  (pc = "done" /\ failed) =>
    /\ decRet.err # Nil
    /\ ~(decRet.err = Nil /\ decRet.tris # <<>>)


\* ---------------------------------------------------------------------
\* The kind byte (SpecDecoder).

\* The triple a frame stands for: a resource after kind 0, a literal with
\* its type and value after any other kind.
FrameTriple(f) ==
  IF f.kind = resourceTypeEncoding
    THEN triple(f.sub, f.pred, object(FALSE, f.words[1], ZeroLiteral))
    ELSE triple(f.sub, f.pred, object(TRUE, <<>>, literal(f.words[1], f.words[2])))

\* The length of the stream up to the end of its n-th frame.
FrameBoundary(n) == Len(RawStream(SubSeq(frames, 1, n)))

\* The failures of reading: what the reader ran out of.
ReadFailures == {EOF, ErrUnexpectedEOF, ErrCannotDecodeWord}

\* C20: no value of the kind byte makes the decoder fail.  On a stream that
\* ends after a whole frame the first Decode returns a nil error and one
\* triple per frame, a resource for kind 0 and a literal with the type word
\* and the value word for every other kind, 2 and 255 as well as 1; where
\* Decode does fail, the stream was cut inside a frame and the error is a
\* failed read.
C20_AnyKindByteDecodes ==
  (pc = "done" /\ calls = 0) =>
    /\ \A n \in 0..Len(frames) :
         cut = FrameBoundary(n) =>
           decRet = Result([k \in 1..n |-> FrameTriple(frames[k])], Nil)
    /\ decRet.err # Nil =>
         /\ \A n \in 0..Len(frames) : cut # FrameBoundary(n)
         /\ Tail(decRet.err) \in ReadFailures

\* Decode has returned, without error, the literals of a whole stream of
\* two frames whose kind bytes are 255 and 2.
C20_Witness ==
  /\ pc = "done" /\ calls = 0 /\ cut = Len(w)
  /\ Len(frames) = 2 /\ frames[1].kind = 255 /\ frames[2].kind = 2
  /\ decRet.err = Nil /\ Len(decRet.tris) = 2
  /\ decRet.tris[1].obj.isLit /\ decRet.tris[2].obj.isLit
  /\ decRet.tris[1].obj.lit = literal(<<116>>, frames[1].words[2])

====
